---- MODULE Spec2Model ----
(***************************************************************************)
(* Model of the User reconciler of go-identity-operator and of the REST    *)
(* client (IdentityService) it drives.                                      *)
(*                                                                          *)
(* One User object of the cluster store is modelled, together with the      *)
(* users of the external identity application.  Every store call and every  *)
(* HTTP call of Reconcile is one step; the answers of the store and of the  *)
(* identity application are chosen nondeterministically.                    *)
(*                                                                          *)
(* Strings are modelled by strings, except the IDs handed out by the        *)
(* identity application: ID n >= 1 is the n-th ID it generated, and 0 is    *)
(* the empty string "".                                                     *)
(***************************************************************************)
EXTENDS Naturals, Sequences, FiniteSets, TLC

VARIABLES
    store,      \* the User object as the API server holds it
    ext,        \* the users of the identity application, by ID
    budget,     \* what the environment has done (edits, drifts) and to which field
    pc,         \* per worker: position of the Reconcile invocation
    user,       \* per worker: the in-memory User read by r.Get
    svc,        \* per worker: the IdentityService of the running helper (its token)
    extUser,    \* per worker: the IdentityUser returned by createUser / getUser
    result,     \* per worker: the error Reconcile returns ("nil" for none)
    ctx,        \* per worker: the context Reconcile was called with
    inv,        \* per worker: log of the running invocation (history)
    last        \* log of the last invocation that returned (history)

vars == <<store, ext, budget, pc, user, svc, extUser, result, ctx, inv, last>>

----------------------------------------------------------------------------
(* Bounds *)

MaxExtUsers == 2    \* IDs the identity application can hand out
MaxEdits == 1       \* edits of the Spec by the owner of the object
MaxDrifts == 1      \* out-of-band changes of an external user

(* Program constants *)

userFinalizer == "micze.io/user-finalizer"

(* A finalizer held by some other controller *)
otherFinalizer == "other/finalizer"

Procs == {"w1", "w2"}
FirstWorker == "w1"

NoID == 0

(* The two values a string field takes, and the two an age takes *)
FlipString(v) == IF v = "x" THEN "y" ELSE "x"
FlipAge(n) == IF n = 1 THEN 2 ELSE 1

(* The fields the environment changes, one of them in a behaviour: a      *)
(* string that is compared, the number, and the string that is not        *)
(* compared.                                                              *)
ChangedFields == {"Role", "Age", "Password"}

InitialUserSpec ==
    [Name |-> "x", Firstname |-> "x", Lastname |-> "x", Role |-> "x",
     Age |-> 1, Password |-> "x"]

(* The zero value of IdentityUser: what json.Unmarshal leaves of a JSON    *)
(* object that carries none of its fields.                                 *)
ZeroIdentityUser ==
    [ID |-> NoID, Name |-> "", Password |-> "", Firstname |-> "",
     Lastname |-> "", Role |-> "", Age |-> 0]

(* The zero value of User (line 59), before r.Get fills it *)
ZeroUser ==
    [exists |-> FALSE, rv |-> 0, del |-> FALSE, fin |-> <<>>,
     spec |-> InitialUserSpec, status |-> [ID |-> NoID, State |-> ""]]

----------------------------------------------------------------------------
(* Pure helpers of the controller *)

RECURSIVE containsString(_, _)
containsString(slice, s) ==
    IF slice = <<>> THEN FALSE
    ELSE IF Head(slice) = s THEN TRUE
    ELSE containsString(Tail(slice), s)

RECURSIVE removeString(_, _)
removeString(slice, s) ==
    IF slice = <<>> THEN <<>>
    ELSE IF Head(slice) # s
         THEN <<Head(slice)>> \o removeString(Tail(slice), s)
         ELSE removeString(Tail(slice), s)

(* HasDrift comparing the password too *)
HasDriftWithPassword(e, spec) ==
    \/ e.Name # spec.Name
    \/ e.Firstname # spec.Firstname
    \/ e.Lastname # spec.Lastname
    \/ e.Role # spec.Role
    \/ e.Age # spec.Age
    \/ e.Password # spec.Password

(* HasDrift with the comparison of the role forgotten *)
HasDriftNoRole(e, spec) ==
    \/ e.Name # spec.Name
    \/ e.Firstname # spec.Firstname
    \/ e.Lastname # spec.Lastname
    \/ e.Age # spec.Age

(* Line 120: the drift comparison of the external user with the Spec *)
HasDrift(e, spec) ==
    \/ e.Name # spec.Name
    \/ e.Firstname # spec.Firstname
    \/ e.Lastname # spec.Lastname
    \/ e.Role # spec.Role
    \/ e.Age # spec.Age

(* DeletionBranch with the test of the marker inverted *)
DeletionBranchInverted(u) ==
    IF containsString(u.fin, userFinalizer) THEN "done" ELSE "fin_token"

(* DeletionBranch finalizing whether or not the marker is there *)
DeletionBranchAlways(u) == "fin_token"

(* Lines 75-78: the deletion branch; what it does with the object read *)
DeletionBranch(u) ==
    IF containsString(u.fin, userFinalizer) THEN "fin_token" ELSE "done"

(* CreateOrDrift taking the marker, not the ID, as the sign of a created user *)
CreateOrDriftByMarker(u) ==
    IF ~containsString(u.fin, userFinalizer) THEN "create_token" ELSE "get_token"

(* Lines 94 and 112: creation branch or drift branch *)
CreateOrDrift(u) ==
    IF u.status.ID = NoID THEN "create_token" ELSE "get_token"

(* Lines 75-127: the branch Reconcile takes on the object it read *)
Branch(u) ==
    IF u.del THEN DeletionBranch(u) ELSE CreateOrDrift(u)

(* FinalizerAssurance adding the marker whether or not it is there *)
FinalizerAssuranceAlways(u) == "add_fin"

(* Lines 130-138: finalizer assurance at the end of the drift branch *)
FinalizerAssurance(u) ==
    IF ~containsString(u.fin, userFinalizer) THEN "add_fin" ELSE "done"

(* WriteReturn trying a refused write again *)
WriteReturnRetry(at, err) ==
    IF err = "conflict" THEN [pc |-> at, err |-> "nil"]
    ELSE [pc |-> "done", err |-> err]

(* Lines 85-88, 104-111, 131-138: after a store write Reconcile returns,    *)
(* with the error of the write if it failed.  at is the position of the    *)
(* write.                                                                  *)
WriteReturn(at, err) == [pc |-> "done", err |-> err]

----------------------------------------------------------------------------
(* The REST client.  r is what http.Client.Do and io.ReadAll gave:          *)
(*   r.err     "nil", or "transport" when the call failed                   *)
(*   r.status  the status class of the response (never read by the client)  *)
(*   r.json    whether the body is a JSON object                            *)
(*   r.body    the IdentityUser fields of that object                       *)
(*   r.token   the token field of that object                               *)

(* json.Unmarshal into an IdentityUser: an error unless the body is JSON,   *)
(* else the fields the object carries, the others zero.                     *)
Unmarshal(r) ==
    IF r.json THEN [val |-> r.body, err |-> "nil"]
    ELSE [val |-> ZeroIdentityUser, err |-> "decode"]

(* IdentityService.GetToken: the token it stores and the error it returns *)
GetToken(r) ==
    IF r.err # "nil" THEN [token |-> "", err |-> r.err]
    ELSE IF ~r.json THEN [token |-> "", err |-> "decode"]
    ELSE [token |-> r.token, err |-> "nil"]

(* IdentityService.CreateUser, GetUser, UpdateUser share their tail *)
DecodeUser(r) ==
    IF r.err # "nil" THEN [val |-> ZeroIdentityUser, err |-> r.err]
    ELSE Unmarshal(r)

CreateUser(r) == DecodeUser(r)

GetUser(r) == DecodeUser(r)

UpdateUser(r) == DecodeUser(r)

(* IdentityService.DeleteUser: the response is closed unread *)
DeleteUser(r) == IF r.err # "nil" THEN r.err ELSE "nil"

----------------------------------------------------------------------------
(* The identity application, as the client meets it.  An answer is what    *)
(* client.Do gave, with effect telling whether the application carried     *)
(* the request out.                                                        *)

TransportFailure ==
    [err |-> "transport", status |-> "", json |-> FALSE,
     body |-> ZeroIdentityUser, token |-> "", effect |-> FALSE]

Answer(status, json, body, effect) ==
    [err |-> "nil", status |-> status, json |-> json, body |-> body,
     token |-> "", effect |-> effect]

(* A refusal: an error object, or no body at all *)
Refusals(status) ==
    {Answer(status, TRUE, ZeroIdentityUser, FALSE),
     Answer(status, FALSE, ZeroIdentityUser, FALSE)}

ValidToken == "tok"

(* POST /login *)
LoginAnswers ==
    {TransportFailure,
     [Answer("2xx", TRUE, ZeroIdentityUser, TRUE) EXCEPT !.token = ValidToken]}
    \cup Refusals("401")

(* The external record the application makes of a posted or put Spec *)
FromSpec(id, spec) ==
    [ID |-> id, Name |-> spec.Name, Password |-> spec.Password,
     Firstname |-> spec.Firstname, Lastname |-> spec.Lastname,
     Role |-> spec.Role, Age |-> spec.Age]

Known(e, id) == id \in DOMAIN e.users

(* POST /users *)
CreateAnswers(e, token, spec) ==
    {TransportFailure} \cup
    IF token # ValidToken THEN Refusals("401")
    ELSE Refusals("5xx") \cup
         IF e.issued < MaxExtUsers
         THEN {Answer("2xx", TRUE, FromSpec(e.issued + 1, spec), TRUE)}
         ELSE {}

(* GET /users/id *)
GetAnswers(e, token, id) ==
    {TransportFailure} \cup
    IF token # ValidToken THEN Refusals("401")
    ELSE Refusals("5xx") \cup
         IF Known(e, id) THEN {Answer("2xx", TRUE, e.users[id], TRUE)}
         ELSE Refusals("404")

(* PUT /users/id *)
UpdateAnswers(e, token, id, spec) ==
    {TransportFailure} \cup
    IF token # ValidToken THEN Refusals("401")
    ELSE Refusals("5xx") \cup
         IF Known(e, id) THEN {Answer("2xx", TRUE, FromSpec(id, spec), TRUE)}
         ELSE Refusals("404")

(* DELETE /users/id; the body of the answer is never read *)
DeleteAnswers(e, token, id) ==
    {TransportFailure} \cup
    IF token # ValidToken THEN {Answer("401", FALSE, ZeroIdentityUser, FALSE)}
    ELSE {Answer("5xx", FALSE, ZeroIdentityUser, FALSE)} \cup
         IF Known(e, id) THEN {Answer("2xx", FALSE, ZeroIdentityUser, TRUE)}
         ELSE {Answer("404", FALSE, ZeroIdentityUser, FALSE)}

Put(e, rec) ==
    [e EXCEPT !.users = [i \in DOMAIN e.users \cup {rec.ID} |->
                            IF i = rec.ID THEN rec ELSE e.users[i]]]

Created(e, rec) == [Put(e, rec) EXCEPT !.issued = rec.ID]

Removed(e, id) ==
    [e EXCEPT !.users = [i \in DOMAIN e.users \ {id} |-> e.users[i]]]

----------------------------------------------------------------------------
(* The store (the API server), as r.Get, r.Update and r.Status().Update    *)
(* meet it.  A write carries the resourceVersion the object was read at    *)
(* and is refused with a conflict when the stored object has moved on; a   *)
(* write that changes nothing leaves the resourceVersion alone; an object  *)
(* under deletion goes once its last finalizer is gone.                    *)

Settle(st) ==
    IF st.del /\ st.fin = <<>> THEN [st EXCEPT !.exists = FALSE] ELSE st

Written(st, new) ==
    IF new = st THEN st ELSE Settle([new EXCEPT !.rv = st.rv + 1])

StoreWriteErr(st, obj) ==
    IF ~st.exists THEN "notfound"
    ELSE IF obj.rv # st.rv THEN "conflict"
    ELSE "nil"

(* r.Update: metadata and spec of obj *)
StoreUpdate(st, obj) ==
    IF StoreWriteErr(st, obj) # "nil" THEN st
    ELSE Written(st, [st EXCEPT !.fin = obj.fin, !.spec = obj.spec])

(* r.Status().Update: status of obj *)
StoreStatusUpdate(st, obj) ==
    IF StoreWriteErr(st, obj) # "nil" THEN st
    ELSE Written(st, [st EXCEPT !.status = obj.status])

----------------------------------------------------------------------------
(* The log of one invocation (history, read by no action) *)

NewLog ==
    [nLogin |-> 0, nCreate |-> 0, nGet |-> 0, nUpdate |-> 0, nDelete |-> 0,
     nWrite |-> 0,
     readErr |-> "none",        \* what r.Get answered
     readID |-> NoID,           \* Status.ID as read
     readDel |-> FALSE,         \* the deletion timestamp was set when read
     readMarker |-> FALSE,      \* the marker was among the finalizers read
     loginFailed |-> FALSE,     \* a login met a transport failure or a non-2xx
     noToken |-> FALSE,         \* a request went out with an empty token
     createStatus |-> "", getStatus |-> "", updStatus |-> "", delStatus |-> "",
     getJson |-> FALSE,
     updTo |-> NoID, updBody |-> InitialUserSpec, delTo |-> NoID,
     delBeforeWrite |-> FALSE,  \* DELETE was sent before the marker-removing write
     writeErr |-> "none",       \* what the store write answered
     wroteID |-> NoID,          \* Status.ID persisted by this invocation
     afterConflict |-> 0,       \* calls and writes made after a conflict
     cancelled |-> FALSE,       \* the context was cancelled during an external call
     afterCancel |-> 0,         \* external calls completed since, the one
                                \* under way included
     clobbered |-> FALSE,       \* a refused write changed the store
     settled |-> FALSE]         \* the update was carried out with the stored
                                \* Spec, and no edit and no drift since

(* What is kept of an invocation once it has returned *)
Summary(l) ==
    [returned |-> TRUE, readEmpty |-> l.readErr = "nil" /\ l.readID = NoID,
     wroteID |-> l.wroteID, nCreate |-> l.nCreate, settled |-> l.settled]

NoSummary == [Summary(NewLog) EXCEPT !.returned = FALSE]

Bump(l, f) ==
    [l EXCEPT ![f] = @ + 1,
              !.afterConflict = IF l.writeErr = "conflict" THEN @ + 1 ELSE @,
              !.afterCancel = IF l.cancelled /\ f # "nWrite" THEN @ + 1 ELSE @]

(* A request of kind f sent with the given token *)
Sent(l, f, token) ==
    [Bump(l, f) EXCEPT !.noToken = @ \/ token = ""]

Disturbed(l) == [l EXCEPT !.settled = FALSE]

----------------------------------------------------------------------------
Init ==
    /\ \E f \in {<<>>, <<otherFinalizer>>} :
         store = [ZeroUser EXCEPT !.exists = TRUE, !.rv = 1, !.fin = f]
    /\ ext = [users |-> [i \in {} |-> ZeroIdentityUser], issued |-> 0]
    /\ budget = [edits |-> 0, drifts |-> 0, field |-> ""]
    /\ pc = [p \in Procs |-> "idle"]
    /\ user = [p \in Procs |-> ZeroUser]
    /\ svc = [p \in Procs |-> ""]
    /\ extUser = [p \in Procs |-> ZeroIdentityUser]
    /\ result = [p \in Procs |-> "nil"]
    /\ ctx = [p \in Procs |-> "live"]
    /\ inv = [p \in Procs |-> NewLog]
    /\ last = NoSummary

----------------------------------------------------------------------------
(* Reconcile, one step per store call and per HTTP call *)

(* The dispatcher delivers the key; one invocation per key at a time *)
Deliver(p) ==
    /\ p = FirstWorker
    /\ \A q \in Procs : pc[q] = "idle"
    /\ pc' = [pc EXCEPT ![p] = "get"]
    /\ inv' = [inv EXCEPT ![p] = NewLog]
    /\ UNCHANGED <<store, ext, budget, user, svc, extUser, result, last, ctx>>

(* GetErrReturn without the test for NotFound *)
GetErrReturnAny(err) == err

(* Lines 61-71: what Reconcile returns when r.Get failed with err *)
GetErrReturn(err) == "nil"

(* Lines 59-71 and the branch taken at 75, 94, 112 *)
Get(p) ==
    /\ pc[p] = "get"
    /\ \E failed \in BOOLEAN :
         LET err == IF failed THEN "storeerr"
                    ELSE IF ~store.exists THEN "notfound" ELSE "nil"
         IN /\ inv' = [inv EXCEPT ![p] = [@ EXCEPT !.readErr = err,
                            !.readID = IF err = "nil" THEN store.status.ID ELSE NoID,
                            !.readDel = err = "nil" /\ store.del,
                            !.readMarker = err = "nil" /\
                                containsString(store.fin, userFinalizer)]]
            /\ IF err # "nil"
               THEN /\ pc' = [pc EXCEPT ![p] = "done"]
                    /\ result' = [result EXCEPT ![p] = GetErrReturn(err)]
                    /\ user' = user
               ELSE /\ user' = [user EXCEPT ![p] = store]
                    /\ pc' = [pc EXCEPT ![p] = Branch(store)]
                    /\ result' = [result EXCEPT ![p] = "nil"]
    /\ UNCHANGED <<store, ext, budget, svc, extUser, last, ctx>>

(* The call each helper makes once it holds a token *)
AfterToken(at) ==
    CASE at = "fin_token" -> "fin_delete"
      [] at = "create_token" -> "create_post"
      [] at = "get_token" -> "get_get"
      [] at = "upd_token" -> "upd_put"

(* Lines 145-151, 165-171, 185-191, 205-211: a fresh service, then GetToken *)
helperGetToken(p) ==
    /\ pc[p] \in {"fin_token", "create_token", "get_token", "upd_token"}
    /\ \E r \in LoginAnswers :
         LET t == GetToken(r)
         IN /\ svc' = [svc EXCEPT ![p] = t.token]
            /\ inv' = [inv EXCEPT ![p] =
                         [Bump(@, "nLogin") EXCEPT !.loginFailed =
                             @ \/ r.err # "nil" \/ r.status # "2xx"]]
            /\ IF t.err # "nil"
               THEN /\ pc' = [pc EXCEPT ![p] = "done"]
                    /\ result' = [result EXCEPT ![p] = t.err]
               ELSE /\ pc' = [pc EXCEPT ![p] = AfterToken(pc[p])]
                    /\ result' = result
    /\ UNCHANGED <<store, ext, budget, user, extUser, last, ctx>>

(* Lines 173-178 and 96-103: CreateUser, then the status set in memory *)
createUser(p) ==
    /\ pc[p] = "create_post"
    /\ \E r \in CreateAnswers(ext, svc[p], user[p].spec) :
         LET c == CreateUser(r)
         IN /\ ext' = IF r.effect THEN Created(ext, r.body) ELSE ext
            /\ inv' = [inv EXCEPT ![p] =
                         [Sent(@, "nCreate", svc[p]) EXCEPT !.createStatus =
                             IF r.err # "nil" THEN r.err ELSE r.status]]
            /\ IF c.err # "nil"
               THEN /\ pc' = [pc EXCEPT ![p] = "done"]
                    /\ result' = [result EXCEPT ![p] = c.err]
                    /\ UNCHANGED <<user, extUser>>
               ELSE /\ extUser' = [extUser EXCEPT ![p] = c.val]
                    /\ user' = [user EXCEPT ![p].status =
                                   [ID |-> c.val.ID, State |-> "Created"]]
                    /\ pc' = [pc EXCEPT ![p] = "status_update"]
                    /\ result' = result
    /\ UNCHANGED <<store, budget, svc, last, ctx>>

(* The outcome of a store write of obj by worker p: it is not made under a *)
(* cancelled context, and it may fail for reasons of the store            *)
WriteErrs(p, obj) ==
    IF ctx[p] = "cancelled" THEN {"canceled"}
    ELSE {"storeerr", StoreWriteErr(store, obj)}

(* StatusObject with the resourceVersion read afresh before the write *)
StatusObjectRefreshed(u, st) == [u EXCEPT !.rv = st.rv]

(* Lines 102-104: the object handed to r.Status().Update is the one r.Get  *)
(* filled, at the resourceVersion it was read at; st is the stored object  *)
StatusObject(u, st) == u

(* Lines 104-111: r.Status().Update, then return *)
StatusUpdate(p) ==
    /\ pc[p] = "status_update"
    /\ \E err \in WriteErrs(p, StatusObject(user[p], store)) :
         LET new == IF err \in {"storeerr", "canceled"} THEN store
                    ELSE StoreStatusUpdate(store, StatusObject(user[p], store))
             ret == WriteReturn(pc[p], err)
         IN /\ store' = new
            /\ pc' = [pc EXCEPT ![p] = ret.pc]
            /\ result' = [result EXCEPT ![p] = ret.err]
            /\ inv' = [inv EXCEPT ![p] =
                         [Bump(@, "nWrite") EXCEPT !.writeErr = err,
                            !.clobbered = @ \/ (err # "nil" /\ new # store),
                            !.wroteID = IF err = "nil" THEN user[p].status.ID ELSE @]]
    /\ UNCHANGED <<ext, budget, user, svc, extUser, last, ctx>>

(* Lines 120-134: after the fetch, update on drift, else finalizer assurance *)
AfterFetch(e, u) ==
    IF HasDrift(e, u.spec) THEN "upd_token" ELSE FinalizerAssurance(u)

(* Lines 193-198 and 114-120: GetUser by Status.ID, then the comparison *)
getUser(p) ==
    /\ pc[p] = "get_get"
    /\ \E r \in GetAnswers(ext, svc[p], user[p].status.ID) :
         LET g == GetUser(r)
         IN /\ inv' = [inv EXCEPT ![p] =
                         [Sent(@, "nGet", svc[p]) EXCEPT
                            !.getStatus = IF r.err # "nil" THEN r.err ELSE r.status,
                            !.getJson = r.json]]
            /\ IF g.err # "nil"
               THEN /\ pc' = [pc EXCEPT ![p] = "done"]
                    /\ result' = [result EXCEPT ![p] = g.err]
                    /\ extUser' = extUser
               ELSE /\ extUser' = [extUser EXCEPT ![p] = g.val]
                    /\ pc' = [pc EXCEPT ![p] = AfterFetch(g.val, user[p])]
                    /\ result' = result
    /\ UNCHANGED <<store, ext, budget, user, svc, last, ctx>>

(* Line 213: the ID the update is addressed to, and the body it carries *)
UpdateTarget(e, u) == e.ID

UpdateBody(u) == u.spec

(* Lines 213-218 and 122-126: UpdateUser *)
updateUser(p) ==
    /\ pc[p] = "upd_put"
    /\ LET to == UpdateTarget(extUser[p], user[p])
           body == UpdateBody(user[p])
       IN \E r \in UpdateAnswers(ext, svc[p], to, body) :
            LET u == UpdateUser(r)
            IN /\ ext' = IF r.effect THEN Put(ext, r.body) ELSE ext
               /\ inv' = [inv EXCEPT ![p] =
                            [Sent(@, "nUpdate", svc[p]) EXCEPT
                               !.updStatus = IF r.err # "nil" THEN r.err ELSE r.status,
                               !.updTo = to, !.updBody = body,
                               !.settled = r.effect /\ body = store.spec]]
               /\ IF u.err # "nil"
                  THEN /\ pc' = [pc EXCEPT ![p] = "done"]
                       /\ result' = [result EXCEPT ![p] = u.err]
                  ELSE /\ pc' = [pc EXCEPT ![p] = FinalizerAssurance(user[p])]
                       /\ result' = result
    /\ UNCHANGED <<store, budget, user, svc, extUser, last, ctx>>

(* Line 153: the ID the delete is addressed to *)
DeleteTarget(u) == u.status.ID

(* Lines 153-158 and 79-84: DeleteUser, then the marker removed in memory *)
finalizeUser(p) ==
    /\ pc[p] = "fin_delete"
    /\ LET to == DeleteTarget(user[p])
       IN \E r \in DeleteAnswers(ext, svc[p], to) :
            LET err == DeleteUser(r)
            IN /\ ext' = IF r.effect THEN Removed(ext, to) ELSE ext
               /\ inv' = [inv EXCEPT ![p] =
                            [Sent(@, "nDelete", svc[p]) EXCEPT
                               !.delStatus = IF r.err # "nil" THEN r.err ELSE r.status,
                               !.delTo = to]]
               /\ IF err # "nil"
                  THEN /\ pc' = [pc EXCEPT ![p] = "done"]
                       /\ result' = [result EXCEPT ![p] = err]
                       /\ user' = user
                  ELSE /\ user' = [user EXCEPT ![p].fin =
                                      removeString(user[p].fin, userFinalizer)]
                       /\ pc' = [pc EXCEPT ![p] = "fin_update"]
                       /\ result' = result
    /\ UNCHANGED <<store, budget, svc, extUser, last, ctx>>

(* A store write of the whole object obj by worker p, then return *)
UpdateAndReturn(p, obj) ==
    \E err \in WriteErrs(p, obj) :
       LET new == IF err \in {"storeerr", "canceled"} THEN store
                  ELSE StoreUpdate(store, obj)
           ret == WriteReturn(pc[p], err)
       IN /\ store' = new
          /\ pc' = [pc EXCEPT ![p] = ret.pc]
          /\ result' = [result EXCEPT ![p] = ret.err]
          /\ inv' = [inv EXCEPT ![p] =
                       [Bump(@, "nWrite") EXCEPT !.writeErr = err,
                          !.clobbered = @ \/ (err # "nil" /\ new # store),
                          !.delBeforeWrite = @ \/ (pc[p] = "fin_update" /\ inv[p].nDelete > 0)]]

(* Lines 85-90: r.Update with the marker removed *)
RemoveFinalizer(p) ==
    /\ pc[p] = "fin_update"
    /\ UpdateAndReturn(p, user[p])
    /\ UNCHANGED <<ext, budget, user, svc, extUser, last, ctx>>

(* Lines 221-226 and 131-138: the marker appended, then r.Update *)
addFinalizer(p) ==
    /\ pc[p] = "add_fin"
    /\ LET obj == [user[p] EXCEPT !.fin = Append(@, userFinalizer)]
       IN /\ user' = [user EXCEPT ![p] = obj]
          /\ UpdateAndReturn(p, obj)
    /\ UNCHANGED <<ext, budget, svc, extUser, last, ctx>>

(* Reconcile has returned: the dispatcher takes the result *)
Return(p) ==
    /\ pc[p] = "done"
    /\ last' = Summary(inv[p])
    /\ pc' = [pc EXCEPT ![p] = "idle"]
    /\ inv' = [inv EXCEPT ![p] = NewLog]
    /\ user' = [user EXCEPT ![p] = ZeroUser]
    /\ svc' = [svc EXCEPT ![p] = ""]
    /\ extUser' = [extUser EXCEPT ![p] = ZeroIdentityUser]
    /\ result' = [result EXCEPT ![p] = "nil"]
    /\ ctx' = [ctx EXCEPT ![p] = "live"]
    /\ UNCHANGED <<store, ext, budget>>

(* The dispatcher delivers the key although an invocation for it is      *)
(* under way (a second replica of the operator, or a stale read)          *)
DeliverAny(p) ==
    /\ pc[p] = "idle"
    /\ pc' = [pc EXCEPT ![p] = "get"]
    /\ inv' = [inv EXCEPT ![p] = NewLog]
    /\ UNCHANGED <<store, ext, budget, user, svc, extUser, result, last, ctx>>

ExternalCalls ==
    {"fin_token", "create_token", "get_token", "upd_token",
     "fin_delete", "create_post", "get_get", "upd_put"}

(* The caller cancels the context while Reconcile is in an external call; *)
(* the helpers drop ctx (lines 143, 163, 183, 203) and the requests are   *)
(* built without it (lines 311, 359, 402, 442, 473)                       *)
Cancel(p) ==
    /\ pc[p] \in ExternalCalls
    /\ ctx[p] = "live"
    /\ ctx' = [ctx EXCEPT ![p] = "cancelled"]
    /\ inv' = [inv EXCEPT ![p] = [@ EXCEPT !.cancelled = TRUE]]
    /\ UNCHANGED <<store, ext, budget, pc, user, svc, extUser, result, last>>

----------------------------------------------------------------------------
(* The environment *)

(* The owner deletes the object: the deletion timestamp is set *)
RequestDeletion ==
    /\ store.exists /\ ~store.del
    /\ store' = Settle([store EXCEPT !.del = TRUE, !.rv = @ + 1])
    /\ UNCHANGED <<ext, budget, pc, user, svc, extUser, result, inv, last, ctx>>

(* The other controller lets go of its finalizer *)
ReleaseOtherFinalizer ==
    /\ store.exists /\ store.del /\ containsString(store.fin, otherFinalizer)
    /\ store' = Settle([store EXCEPT !.fin = removeString(@, otherFinalizer),
                                      !.rv = @ + 1])
    /\ UNCHANGED <<ext, budget, pc, user, svc, extUser, result, inv, last, ctx>>

Edited(spec, f) ==
    IF f = "Age" THEN [spec EXCEPT !.Age = FlipAge(@)]
    ELSE [spec EXCEPT ![f] = FlipString(@)]

(* The field the environment changes: any, until it has changed one *)
FieldsToChange ==
    IF budget.field = "" THEN ChangedFields ELSE {budget.field}

(* The owner edits one field of the Spec *)
EditSpec ==
    /\ store.exists /\ budget.edits < MaxEdits
    /\ \E f \in FieldsToChange :
         /\ store' = [store EXCEPT !.spec = Edited(@, f), !.rv = @ + 1]
         /\ budget' = [budget EXCEPT !.edits = @ + 1, !.field = f]
    /\ inv' = [p \in Procs |-> Disturbed(inv[p])]
    /\ last' = Disturbed(last)
    /\ UNCHANGED <<ext, pc, user, svc, extUser, result, ctx>>

(* Somebody changes one field of the object's external user behind the    *)
(* operator                                                               *)
ExternalDrift ==
    /\ budget.drifts < MaxDrifts
    /\ \E id \in DOMAIN ext.users \cap {store.status.ID}, f \in FieldsToChange :
         /\ ext' = [ext EXCEPT !.users[id] = Edited(@, f)]
         /\ budget' = [budget EXCEPT !.drifts = @ + 1, !.field = f]
    /\ inv' = [p \in Procs |-> Disturbed(inv[p])]
    /\ last' = Disturbed(last)
    /\ UNCHANGED <<store, pc, user, svc, extUser, result, ctx>>

(* Somebody removes the object's external user behind the operator *)
ExternalRemoval ==
    /\ budget.drifts < MaxDrifts
    /\ \E id \in DOMAIN ext.users \cap {store.status.ID} :
         ext' = Removed(ext, id)
    /\ budget' = [budget EXCEPT !.drifts = @ + 1]
    /\ inv' = [p \in Procs |-> Disturbed(inv[p])]
    /\ last' = Disturbed(last)
    /\ UNCHANGED <<store, pc, user, svc, extUser, result, ctx>>

----------------------------------------------------------------------------
Next ==
    \/ \E p \in Procs : Deliver(p)
    \/ \E p \in Procs : Get(p)
    \/ \E p \in Procs : helperGetToken(p)
    \/ \E p \in Procs : createUser(p)
    \/ \E p \in Procs : StatusUpdate(p)
    \/ \E p \in Procs : getUser(p)
    \/ \E p \in Procs : updateUser(p)
    \/ \E p \in Procs : finalizeUser(p)
    \/ \E p \in Procs : RemoveFinalizer(p)
    \/ \E p \in Procs : addFinalizer(p)
    \/ \E p \in Procs : Return(p)
    \/ RequestDeletion
    \/ ReleaseOtherFinalizer
    \/ EditSpec
    \/ ExternalDrift
    \/ ExternalRemoval

Spec == Init /\ [][Next]_vars

(* Reconcile under a context that may be cancelled *)
NextCancel ==
    \/ \E p \in Procs : Deliver(p)
    \/ \E p \in Procs : Get(p)
    \/ \E p \in Procs : helperGetToken(p)
    \/ \E p \in Procs : createUser(p)
    \/ \E p \in Procs : StatusUpdate(p)
    \/ \E p \in Procs : getUser(p)
    \/ \E p \in Procs : updateUser(p)
    \/ \E p \in Procs : finalizeUser(p)
    \/ \E p \in Procs : RemoveFinalizer(p)
    \/ \E p \in Procs : addFinalizer(p)
    \/ \E p \in Procs : Return(p)
    \/ \E p \in Procs : Cancel(p)
    \/ RequestDeletion

SpecCancel == Init /\ [][NextCancel]_vars

(* Reconcile with invocations for the same key overlapping, on an object  *)
(* that is not deleted                                                    *)
NextOverlap ==
    \/ \E p \in Procs : DeliverAny(p)
    \/ \E p \in Procs : Get(p)
    \/ \E p \in Procs : helperGetToken(p)
    \/ \E p \in Procs : createUser(p)
    \/ \E p \in Procs : StatusUpdate(p)
    \/ \E p \in Procs : getUser(p)
    \/ \E p \in Procs : updateUser(p)
    \/ \E p \in Procs : addFinalizer(p)
    \/ \E p \in Procs : Return(p)

SpecOverlap == Init /\ [][NextOverlap]_vars

(* Deletion: the dispatcher goes on delivering the key, every call        *)
(* returns, and the store read, the login, the external delete and the    *)
(* store write succeed again and again when tried again and again         *)
NextDeletion ==
    \/ \E p \in Procs : Deliver(p)
    \/ \E p \in Procs : Get(p)
    \/ \E p \in Procs : helperGetToken(p)
    \/ \E p \in Procs : createUser(p)
    \/ \E p \in Procs : StatusUpdate(p)
    \/ \E p \in Procs : getUser(p)
    \/ \E p \in Procs : updateUser(p)
    \/ \E p \in Procs : finalizeUser(p)
    \/ \E p \in Procs : RemoveFinalizer(p)
    \/ \E p \in Procs : addFinalizer(p)
    \/ \E p \in Procs : Return(p)
    \/ RequestDeletion
    \/ ReleaseOtherFinalizer

Step(p) ==
    \/ Deliver(p) \/ Get(p) \/ helperGetToken(p) \/ createUser(p)
    \/ StatusUpdate(p) \/ getUser(p) \/ updateUser(p) \/ finalizeUser(p)
    \/ RemoveFinalizer(p) \/ addFinalizer(p) \/ Return(p)

DeletionFairness ==
    \A p \in Procs :
        /\ WF_vars(Step(p))
        /\ SF_vars(Get(p) /\ inv'[p].readErr = "nil")
        /\ SF_vars(helperGetToken(p) /\ pc'[p] # "done")
        /\ SF_vars(finalizeUser(p) /\ pc'[p] = "fin_update")
        /\ SF_vars(RemoveFinalizer(p) /\ result'[p] = "nil")

SpecDeletion == Init /\ [][NextDeletion]_vars /\ DeletionFairness

----------------------------------------------------------------------------
(* Properties *)

Marked(fin) == containsString(fin, userFinalizer)

ComparedFields == {"Name", "Firstname", "Lastname", "Role", "Age"}

Differs(e, spec) == \E f \in ComparedFields : e[f] # spec[f]

Rejections == {"401", "404", "5xx"}

NoCalls(l) ==
    /\ l.nLogin = 0 /\ l.nCreate = 0 /\ l.nGet = 0
    /\ l.nUpdate = 0 /\ l.nDelete = 0

(* C1: once the object has been erased from the store, no external user    *)
(* the operator created for it is left in the identity application.        *)
C1_ErasedAfterExternalDelete ==
    ~store.exists => DOMAIN ext.users = {}

(* C2: a stored object in state Created that is not under deletion         *)
(* carries the finalizer marker.                                           *)
C2_CreatedCarriesMarker ==
    (store.exists /\ ~store.del /\ store.status.State = "Created")
        => Marked(store.fin)

(* C3: under deletion with the marker, the external delete is sent before  *)
(* the write that removes the marker; and if the delete failed (transport  *)
(* failure or a refusal other than not-found), the invocation returns an   *)
(* error and the marker is still in the store.                             *)
C3_DeleteBeforeMarkerRemoval ==
    \A p \in Procs :
        (inv[p].readDel /\ inv[p].readMarker) =>
            /\ inv[p].nWrite > 0 => inv[p].delBeforeWrite
            /\ (pc[p] = "done" /\ inv[p].delStatus \in {"transport", "401", "5xx"})
                 => (result[p] # "nil" /\ Marked(store.fin))

(* C4: DeleteUser reports success only on a 2xx or a not-found answer: an  *)
(* invocation whose DELETE was refused otherwise has returned an error     *)
(* and left the marker in the store.                                       *)
C4_DeleteRejectionSurfaced ==
    \A p \in Procs :
        inv[p].delStatus \in {"401", "5xx"} =>
            (pc[p] = "done" /\ result[p] # "nil" /\ Marked(store.fin))

(* C5: on an object under deletion that carries no marker, Reconcile makes *)
(* no external call and no store write and returns success.                *)
C5_NoMarkerNoDelete ==
    \A p \in Procs :
        (inv[p].readErr = "nil" /\ inv[p].readDel /\ ~inv[p].readMarker) =>
            /\ pc[p] = "done" /\ result[p] = "nil"
            /\ NoCalls(inv[p]) /\ inv[p].nWrite = 0

C5_Witness ==
    \E p \in Procs :
        /\ inv[p].readErr = "nil" /\ inv[p].readDel /\ ~inv[p].readMarker
        /\ pc[p] = "done" /\ store.exists /\ store.status.ID # NoID

(* C6: when an invocation that read an empty Status.ID has persisted an    *)
(* ID and the next invocation reads that ID, the two together send one     *)
(* create: the second is not in the creation branch.                       *)
C6_IdempotentCreation ==
    \A p \in Procs :
        (/\ last.returned /\ last.readEmpty /\ last.wroteID # NoID
         /\ inv[p].readErr = "nil" /\ inv[p].readID = last.wroteID) =>
            /\ last.nCreate + inv[p].nCreate = 1
            /\ pc[p] \notin {"create_token", "create_post", "status_update"}

C6_Witness ==
    \E p \in Procs :
        /\ last.returned /\ last.readEmpty /\ last.wroteID # NoID
        /\ inv[p].readErr = "nil" /\ inv[p].readID = last.wroteID
        /\ pc[p] = "done" /\ result[p] = "nil" /\ ~inv[p].readDel

(* C7: when the fetched external user differs from the Spec in a compared  *)
(* field, the invocation sends at most one update, exactly one if it       *)
(* returns success, addressed to Status.ID and carrying the whole Spec;    *)
(* and once such an update was carried out with the stored Spec, with no   *)
(* edit and no drift since, the next invocation that fetches the external  *)
(* user sends no update.                                                   *)
C7_DriftConvergence ==
    \A p \in Procs :
        /\ (inv[p].getStatus = "2xx" /\ Differs(extUser[p], user[p].spec)) =>
              /\ inv[p].nUpdate <= 1
              /\ (pc[p] = "done" /\ result[p] = "nil") => inv[p].nUpdate = 1
              /\ inv[p].nUpdate = 1 =>
                    (inv[p].updBody = user[p].spec /\ inv[p].updTo = inv[p].readID)
        /\ (last.returned /\ last.settled /\ inv[p].getStatus = "2xx") =>
              /\ inv[p].nUpdate = 0
              /\ pc[p] \notin {"upd_token", "upd_put"}

C7_Witness ==
    \E p \in Procs :
        /\ last.returned /\ last.settled /\ inv[p].getStatus = "2xx"
        /\ pc[p] = "done" /\ result[p] = "nil"
        /\ store.spec # InitialUserSpec

(* C8: when the fetch by a known Status.ID is answered not-found,          *)
(* Reconcile returns an error and sends neither a create nor an update.    *)
C8_NotFoundSurfaced ==
    \A p \in Procs :
        inv[p].getStatus = "404" =>
            /\ pc[p] = "done" /\ result[p] # "nil"
            /\ inv[p].nCreate = 0 /\ inv[p].nUpdate = 0

(* C9: once a store write has reported a conflict, the invocation has      *)
(* returned an error, having made that one write attempt, no call and no   *)
(* write after it, and the refused write has left the store as it was.     *)
C9_ConflictEndsInvocation ==
    \A p \in Procs :
        inv[p].writeErr = "conflict" =>
            /\ pc[p] = "done" /\ result[p] = "conflict"
            /\ inv[p].nWrite = 1 /\ inv[p].afterConflict = 0
            /\ ~inv[p].clobbered

C9_Witness ==
    \E p \in Procs :
        /\ inv[p].writeErr = "conflict" /\ pc[p] = "done"
        /\ user[p].rv < store.rv /\ user[p].status.ID # store.status.ID

(* C10: an invocation that met a failure other than the object being       *)
(* absent or not-found on the external delete returns an error.            *)
Failed(l) ==
    \/ l.readErr = "storeerr"
    \/ l.loginFailed
    \/ l.createStatus \in {"transport"} \cup Rejections
    \/ l.getStatus \in {"transport"} \cup Rejections
    \/ l.updStatus \in {"transport"} \cup Rejections
    \/ l.delStatus \in {"transport", "401", "5xx"}
    \/ l.writeErr \notin {"none", "nil"}

C10_FailuresSurfaced ==
    \A p \in Procs :
        (pc[p] = "done" /\ Failed(inv[p])) => result[p] # "nil"

(* C11: when a login fails, by a transport failure or a non-2xx answer,    *)
(* the invocation returns an error, and no request is ever sent with an    *)
(* empty token.                                                            *)
C11_LoginFailureShortCircuits ==
    \A p \in Procs :
        /\ inv[p].loginFailed => (pc[p] = "done" /\ result[p] # "nil")
        /\ ~inv[p].noToken

(* C12: an invocation in which a login or an external call failed makes    *)
(* no successful store write.                                              *)
ExternalFailure(l) ==
    \/ l.loginFailed
    \/ l.createStatus \in {"transport"} \cup Rejections
    \/ l.getStatus \in {"transport"} \cup Rejections
    \/ l.updStatus \in {"transport"} \cup Rejections
    \/ l.delStatus \in {"transport", "401", "5xx"}

C12_FailedCallWritesNothing ==
    \A p \in Procs :
        ExternalFailure(inv[p]) => inv[p].writeErr # "nil"

(* C13: an object under deletion that carries the marker eventually is     *)
(* under deletion without the marker, and once it is, it stays so.         *)
Terminal == store.del /\ ~Marked(store.fin)

C13_DeletionCompletes ==
    /\ (store.del /\ Marked(store.fin)) ~> Terminal
    /\ [][Terminal => Terminal']_vars

C13_Witness ==
    /\ Terminal
    /\ \E p \in Procs :
         /\ inv[p].readDel /\ inv[p].readMarker /\ inv[p].delStatus = "2xx"
         /\ inv[p].writeErr = "nil" /\ pc[p] = "done" /\ result[p] = "nil"

(* C14: on an object not under deletion, with a Status.ID and the marker,  *)
(* whose fetched external user equals the Spec in the compared fields,     *)
(* the invocation makes no store write and no create, update or delete     *)
(* and returns success.                                                    *)
Converged(p) ==
    /\ inv[p].readErr = "nil" /\ ~inv[p].readDel
    /\ inv[p].readID # NoID /\ inv[p].readMarker
    /\ inv[p].getStatus = "2xx" /\ ~Differs(extUser[p], user[p].spec)

C14_IdempotentAtConvergence ==
    \A p \in Procs :
        Converged(p) =>
            /\ pc[p] = "done" /\ result[p] = "nil"
            /\ inv[p].nWrite = 0 /\ inv[p].nCreate = 0
            /\ inv[p].nUpdate = 0 /\ inv[p].nDelete = 0

C14_Witness ==
    \E p \in Procs :
        /\ Converged(p) /\ pc[p] = "done"
        /\ last.returned /\ ~last.readEmpty /\ last.wroteID = NoID

(* C15: when the object is absent from the store, Reconcile returns        *)
(* success having made no external call and no store write.               *)
C15_AbsentIsNoOp ==
    \A p \in Procs :
        inv[p].readErr = "notfound" =>
            /\ pc[p] = "done" /\ result[p] = "nil"
            /\ NoCalls(inv[p]) /\ inv[p].nWrite = 0

C15_Witness ==
    \E p \in Procs :
        inv[p].readErr = "notfound" /\ pc[p] = "done" /\ ~store.exists

(* C16: once the context was cancelled during an external call, no         *)
(* external call but the one under way completes, and the invocation       *)
(* returns an error.                                                       *)
C16_CancelAbortsInvocation ==
    \A p \in Procs :
        inv[p].cancelled =>
            /\ inv[p].afterCancel <= 1
            /\ pc[p] = "done" => result[p] # "nil"

(* C17: once the external user is fetched, the update is entered if and    *)
(* only if it differs from the Spec in a compared field; the password      *)
(* plays no part.                                                          *)
Fetched(p) == inv[p].nGet = 1 /\ inv[p].getJson

UpdateEntered(p) == pc[p] \in {"upd_token", "upd_put"} \/ inv[p].nLogin > 1

C17_UpdateIffDrift ==
    \A p \in Procs :
        Fetched(p) => (UpdateEntered(p) <=> Differs(extUser[p], user[p].spec))

C17_Witness ==
    \E p \in Procs :
        /\ Fetched(p) /\ inv[p].getStatus = "2xx"
        /\ extUser[p].Password # user[p].spec.Password
        /\ ~UpdateEntered(p) /\ pc[p] = "done" /\ result[p] = "nil"

(* C18: a stored state Created comes with a non-empty Status.ID.           *)
C18_CreatedHasID ==
    store.status.State = "Created" => store.status.ID # NoID

(* C19: every update and every delete an invocation sends is addressed to  *)
(* the Status.ID it read.                                                  *)
C19_CallsAddressStatusID ==
    \A p \in Procs :
        /\ inv[p].nUpdate > 0 => inv[p].updTo = inv[p].readID
        /\ inv[p].nDelete > 0 => inv[p].delTo = inv[p].readID

(* C20: a stored Status.ID that is not empty never changes, however the    *)
(* invocations for the object overlap.                                     *)
C20_StoredIDNeverChanges ==
    [][store.status.ID # NoID => store'.status.ID = store.status.ID]_vars

C20_Witness ==
    \E p \in Procs :
        /\ inv[p].readErr = "nil" /\ inv[p].readID = NoID
        /\ inv[p].writeErr = "conflict" /\ pc[p] = "done"
        /\ user[p].status.ID # NoID /\ store.status.ID # NoID
        /\ user[p].status.ID # store.status.ID

====
